---- MODULE Spec2Model ----
(***************************************************************************)
(* Simulation lifecycle, gamified action scoring and completion of the     *)
(* e-learning backend (simulationController, gameController, aiService,    *)
(* simulationModels, gameModels).  One request handler is one action; the  *)
(* document store is the variables sims, gameActions, stats and            *)
(* notifications.                                                          *)
(***************************************************************************)
EXTENDS Integers, Sequences, FiniteSets, TLC

VARIABLES
    sims,           \* Simulation collection: sequence of documents, _id = index
    gameActions,    \* GameAction collection: append-only sequence of rows
    stats,          \* StudentGameStats collection: student -> row or NoStats
    notifications,  \* Notification collection: set of [userId, type, sim]
    now,            \* wall clock, milliseconds
    resp,           \* the response of the last request
    calc,           \* inputs and output of the scoring helpers (ScoreSpec)
    inflight        \* requests being served step by step (RaceSpec)

vars == <<sims, gameActions, stats, notifications, now, resp, calc, inflight>>

----------------------------------------------------------------------------
(* Bounds of the model *)

MaxSims == 1          \* simulations generated
MaxActions == 1       \* GameAction rows logged
MaxHints == 1         \* hints requested per simulation
MaxTime == 1000       \* last clock value, ms
MaxWeight == 12       \* largest scoring weight drawn in ScoreSpec
MaxFinalScore == 210  \* largest game score drawn in TierSpec
MaxCompletions == 3   \* open simulations of the student in StatsSpec
PriorGames == 19      \* completions already counted in a seasoned stats row
MaxQuotaSims == 7     \* simulations generated in QuotaSpec
MaxQuotaWindows == 2  \* whole hours the clock advances in QuotaSpec
MaxQuotaOffset == 2   \* single milliseconds the clock advances past an hour
MaxPaceTime == 2001   \* last clock value in PaceSpec, ms
MaxPaceOffset == 1    \* single milliseconds the clock advances past a second

(* Program constants *)

UpdateFloorMs == 1000       \* updateSimulationState: (now - lastActiveAt) < 1000
GenWindowMs == 3600000      \* generateSimulation: 60 * 60 * 1000
GenLimit == 5               \* generateSimulation: recentSimulations >= 5
PromptMax == 500            \* generateSimulation: prompt.length > 500
DefaultLevel == 3           \* generateSimulation: level || student.selectedLevel || 3
ActionCap == 25             \* calculateScoreGain: Math.min(score, 25)
MixCap == 30                \* calculateMixingScore: Math.min(score, 30)
DangerPenalty == 15         \* calculateScoreGain: score - 15
CautionPenalty == 5         \* calculateScoreGain: score - 5
MixSafeBonus == 10          \* calculateMixingScore: score += 10
MixCautionBonus == 5        \* calculateMixingScore: score += 5
DefaultCorrectAction == 10  \* generateGameConfig: correctAction: 10
DefaultObservation == 5     \* generateGameConfig: observation: 5
DefaultMaxScore == 100      \* completeSimulation: gameConfig?.maxScore || 100
StreakSuccess == 70         \* updateStats: finalScore >= 70
ProgressionCap == 5         \* updateStats: Math.min(5, ...)
ProgressionDiv == 20        \* updateStats: Math.floor(finalScore / 20)
SkillMax == 100             \* updateStats: Math.min(100, ...)
ObserverMin == 5            \* generateGameAchievements: observationsMade >= 5
ExperimenterMin == 10       \* generateGameAchievements: actionsCompleted >= 10

NoVal == -1                 \* an absent (undefined) number or date

----------------------------------------------------------------------------
(* Schema enumerations *)

Statuses == {"not_started", "in_progress", "paused", "completed"}
GameActionKinds ==
    {"use_equipment", "mix_chemicals", "observe", "measure", "place_item", "remove_item"}
GameTargets == {"beaker", "burette", "measuring", "observation", "workspace"}
TrackedSubjects == <<"chemistry", "physics", "biology">>
HintTypes == {"tip", "encouragement", "direction", "safety"}

(* Users of the platform: one student, one guardian linked to that student, *)
(* one teacher.                                                             *)
Students == {"s1"}
Parents(student) == IF student = "s1" THEN {"p1"} ELSE {}

(* Request inputs: <<studentId, prompt length>> of a generate request,     *)
(* <<action, target>> of a process-action request ("" is a missing field)  *)
GenInputs == {<<"s1", 20>>, <<"t1", 20>>, <<"", 20>>, <<"s1", 0>>, <<"s1", 501>>}
GenSubjects == {"chemistry"}
GenLevels == {1}
ActionInputs ==
    {<<"use_equipment", "beaker">>, <<"jump", "beaker">>, <<"use_equipment", "shelf">>,
     <<"", "beaker">>, <<"use_equipment", "">>}
PatchStatuses == Statuses \cup {"", "archived"}
PatchProgress == {NoVal, 50, 150}
PatchScores == {NoVal, 0, 96}
FinalScores == {NoVal, 110}
ChemicalInputs == {"HCl", ""}
SimIds == 1..MaxSims

Max(a, b) == IF a >= b THEN a ELSE b
Min(a, b) == IF a <= b THEN a ELSE b

(* JavaScript a || b on numbers: undefined and 0 are falsy *)
OrElse(a, b) == IF a = NoVal \/ a = 0 THEN b ELSE a


----------------------------------------------------------------------------
(* Documents *)

(* state.gameState as generateSimulation creates it, with a given score *)
GameStateOf(score) ==
    [score |-> score, observations |-> <<>>, mixedSolutions |-> <<>>,
     hints |-> <<>>, achievements |-> <<>>]

(* state.results: the Mixed bag {} ; the four keys the controllers read *)
EmptyResults ==
    [gameScore |-> NoVal, actionsCompleted |-> NoVal,
     observationsMade |-> NoVal, hintsUsed |-> NoVal]

(* generateGameConfig(subject, level) *)
generateGameConfig(subject, level) ==
    [correctAction |-> DefaultCorrectAction,
     observation |-> DefaultObservation,
     maxScore |-> 100 + (level * 20)]

(* A list of the lab description: its length and whether its items are   *)
(* plain strings or structured objects                                     *)
List(n, items) == [n |-> n, items |-> items]

(* aiService.generateMockSimulation(prompt, subject, level): the template  *)
(* of the subject (mockData[subject] || mockData.chemistry), re-tagged     *)
generateMockSimulation(subject, level) ==
    LET template ==
            IF subject = "physics"
            THEN [title |-> "Simple Circuit Construction",
                  virtualLab |-> [equipment |-> List(3, "objects"),
                                  chemicals |-> List(0, "objects"),
                                  procedure |-> List(7, "strings"),
                                  safetyNotes |-> List(3, "strings")]]
            ELSE IF subject = "biology"
            THEN [title |-> "Microscopic Cell Observation",
                  virtualLab |-> [equipment |-> List(3, "objects"),
                                  chemicals |-> List(1, "objects"),
                                  procedure |-> List(8, "strings"),
                                  safetyNotes |-> List(3, "strings")]]
            ELSE [title |-> "Acid-Base Titration Experiment",
                  virtualLab |-> [equipment |-> List(3, "objects"),
                                  chemicals |-> List(3, "objects"),
                                  procedure |-> List(8, "strings"),
                                  safetyNotes |-> List(4, "strings")]]
    IN  [title |-> template.title, virtualLab |-> template.virtualLab,
         subject |-> subject, level |-> level,
         gameConfig |-> generateGameConfig(subject, level)]

(* new Simulation({... state: { status: 'not_started', ... } }) *)
NewSimulation(studentId, promptLen, aiData, subject, level, t) ==
    [studentId |-> studentId, promptLen |-> promptLen,
     subject |-> subject, level |-> level,
     title |-> aiData.title, virtualLab |-> aiData.virtualLab,
     createdAt |-> t,
     gameConfig |-> aiData.gameConfig,
     state |-> [status |-> "not_started", progress |-> 0,
                results |-> EmptyResults,
                startedAt |-> NoVal, lastActiveAt |-> NoVal, completedAt |-> NoVal,
                gameState |-> GameStateOf(0)]]

(* new StudentGameStats({ studentId }) : the schema defaults *)
NewStats ==
    [exists |-> FALSE, totalGamesPlayed |-> 0, totalScore |-> 0, averageScore |-> 0,
     experimentsCompleted |-> 0, favoriteSubject |-> "general",
     skillProgression |-> [s \in {"chemistry", "physics", "biology"} |-> 0],
     bestScores |-> [s \in {"chemistry", "physics", "biology"} |-> 0],
     streaks |-> [current |-> 0, longest |-> 0]]

(* Simulation.findById(simulationId) *)
Found(id) == id \in 1..Len(sims)

Reply(op, id, code, kind) ==
    [op |-> op, sim |-> id, code |-> code, kind |-> kind,
     scoreGain |-> NoVal, finalScore |-> NoVal, performance |-> "",
     achievements |-> {}]

NoCalc == [fn |-> "none", correctAction |-> 0, observation |-> 0,
           flagA |-> FALSE, flagB |-> FALSE, safety |-> "safe", out |-> NoVal]

Init ==
    /\ sims = <<>>
    /\ gameActions = <<>>
    /\ stats = [s \in Students |-> NewStats]
    /\ notifications = {}
    /\ now = 0
    /\ inflight = <<>>
    /\ resp = Reply("none", 0, 0, "none")
    /\ calc = NoCalc

----------------------------------------------------------------------------
(* Lifecycle state machine *)

(* Mutants: a table that lets completed go back to in_progress; a table   *)
(* that lets not_started jump to paused.                                   *)
isValidStateTransitionReopen(currentStatus, newStatus) ==
    \/ currentStatus = "not_started" /\ newStatus \in {"in_progress"}
    \/ currentStatus = "in_progress" /\ newStatus \in {"paused", "completed"}
    \/ currentStatus = "paused" /\ newStatus \in {"in_progress", "completed"}
    \/ currentStatus = "completed" /\ newStatus \in {"in_progress"}

isValidStateTransitionSkip(currentStatus, newStatus) ==
    \/ currentStatus = "not_started" /\ newStatus \in {"in_progress", "paused"}
    \/ currentStatus = "in_progress" /\ newStatus \in {"paused", "completed"}
    \/ currentStatus = "paused" /\ newStatus \in {"in_progress", "completed"}

isValidStateTransition(currentStatus, newStatus) ==
    \/ currentStatus = "not_started" /\ newStatus \in {"in_progress"}
    \/ currentStatus = "in_progress" /\ newStatus \in {"paused", "completed"}
    \/ currentStatus = "paused" /\ newStatus \in {"in_progress", "completed"}

(* The status checks of the dedicated operations *)
CanStart(status) == status = "not_started"
(* Mutant: pause treated as idempotent *)
CanPauseAgain(status) == status \in {"in_progress", "paused"}
CanPause(status) == status = "in_progress"
CanResume(status) == status = "paused"
CanComplete(status) == status \in {"in_progress", "paused"}

(* The notifications createSimulationNotifications sets out to create *)
IntendedNotifications(student, id, action, achievement) ==
    LET forStudent ==
            {[userId |-> student, type |-> "simulation_" \o action, sim |-> id]}
        forParents ==
            IF action = "generated" THEN {}
            ELSE {[userId |-> p, type |-> "simulation_" \o action, sim |-> id] :
                      p \in Parents(student)}
        forAchievement ==
            IF achievement
            THEN {[userId |-> p, type |-> "simulation_achievement", sim |-> id] :
                      p \in Parents(student)}
            ELSE {}
    IN  forStudent \cup forParents \cup forAchievement

(* createSimulationNotifications(student, simulation, action, achievement) *)
createSimulationNotifications(student, id, action, achievement) ==
    notifications \cup IntendedNotifications(student, id, action, achievement)

(* The same call when the notifications addressed to the users in lost     *)
(* cannot be saved: createNotification catches the error and returns null  *)
createSimulationNotificationsLosing(student, id, action, achievement, lost) ==
    notifications \cup
        {n \in IntendedNotifications(student, id, action, achievement) :
             n.userId \notin lost}

(* Mutant: the error of a notification that cannot be saved reaches the    *)
(* handler                                                                 *)
NotificationErrorRethrown(intended, lost) == \E n \in intended : n.userId \in lost

(* try { ... } catch (error) { console.error(...) } in createNotification  *)
(* and around the body of createSimulationNotifications: nothing is thrown *)
(* to the handler                                                          *)
NotificationErrorThrown(intended, lost) == FALSE

(* The reply of a handler after its notifications: the catch block of the  *)
(* handler answers 500 when the call threw                                 *)
AfterNotifications(op, id, intended, lost, reply) ==
    IF NotificationErrorThrown(intended, lost)
    THEN Reply(op, id, 500, "error")
    ELSE reply

(* startSimulation: POST /:simulationId/start, with the users whose       *)
(* notifications cannot be saved                                           *)
startSimulationNotifying(id, lost) ==
    /\ UNCHANGED <<gameActions, stats, now, calc, inflight>>
    /\ IF ~Found(id)
       THEN /\ resp' = Reply("start", id, 404, "not_found")
            /\ UNCHANGED <<sims, notifications>>
       ELSE IF ~CanStart(sims[id].state.status)
       THEN /\ resp' = Reply("start", id, 400, "invalid_transition")
            /\ UNCHANGED <<sims, notifications>>
       ELSE /\ sims' = [sims EXCEPT ![id].state.status = "in_progress",
                                    ![id].state.startedAt = now,
                                    ![id].state.lastActiveAt = now]
            /\ notifications' =
                   createSimulationNotificationsLosing(sims[id].studentId, id,
                                                       "started", FALSE, lost)
            /\ resp' = AfterNotifications(
                            "start", id,
                            IntendedNotifications(sims[id].studentId, id,
                                                  "started", FALSE),
                            lost, Reply("start", id, 200, "ok"))

(* startSimulation: POST /:simulationId/start *)
startSimulation(id) == startSimulationNotifying(id, {})

(* pauseSimulation: POST /:simulationId/pause *)
pauseSimulation(id) ==
    /\ UNCHANGED <<gameActions, stats, notifications, now, calc, inflight>>
    /\ IF ~Found(id)
       THEN /\ resp' = Reply("pause", id, 404, "not_found")
            /\ UNCHANGED sims
       ELSE IF ~CanPause(sims[id].state.status)
       THEN /\ resp' = Reply("pause", id, 400, "invalid_transition")
            /\ UNCHANGED sims
       ELSE /\ sims' = [sims EXCEPT ![id].state.status = "paused",
                                    ![id].state.lastActiveAt = now]
            /\ resp' = Reply("pause", id, 200, "ok")

(* resumeSimulation: POST /:simulationId/resume *)
resumeSimulation(id) ==
    /\ UNCHANGED <<gameActions, stats, notifications, now, calc, inflight>>
    /\ IF ~Found(id)
       THEN /\ resp' = Reply("resume", id, 404, "not_found")
            /\ UNCHANGED sims
       ELSE IF ~CanResume(sims[id].state.status)
       THEN /\ resp' = Reply("resume", id, 400, "invalid_transition")
            /\ UNCHANGED sims
       ELSE /\ sims' = [sims EXCEPT ![id].state.status = "in_progress",
                                    ![id].state.lastActiveAt = now]
            /\ resp' = Reply("resume", id, 200, "ok")


(* The state patches a client sends to updateSimulationState.  present is   *)
(* FALSE when the body has no state; status "" and progress NoVal are keys  *)
(* the patch does not carry; gameScore is the score of the gameState object *)
(* the patch carries, NoVal when it carries none.                           *)
Patch(present, status, progress, gameScore) ==
    [present |-> present, status |-> status, progress |-> progress,
     gameScore |-> gameScore]

Patches ==
    {Patch(FALSE, "", NoVal, NoVal)}
    \cup {Patch(TRUE, s, NoVal, NoVal) : s \in PatchStatuses}
    \cup {Patch(TRUE, "", p, NoVal) : p \in PatchProgress}
    \cup {Patch(TRUE, "", NoVal, g) : g \in PatchScores}
    \cup {Patch(TRUE, s, 50, 0) : s \in Statuses}

(* { ...simulation.state.toObject(), ...stateUpdateData } *)
MergeState(state, patch, dropStatus) ==
    [state EXCEPT
        !.status = IF patch.status = "" \/ dropStatus THEN @ ELSE patch.status,
        !.progress = IF patch.progress = NoVal THEN @ ELSE patch.progress,
        !.gameState = IF patch.gameScore = NoVal THEN @
                      ELSE GameStateOf(patch.gameScore)]

(* Schema validation of state on save: status enum, progress 0..100 *)
StateValid(state) ==
    /\ state.status \in Statuses
    /\ state.progress >= 0 /\ state.progress <= 100

(* Mutant: only a request in the same millisecond is held back *)
UpdateTooSoonSameInstant(lastActiveAt, t) ==
    lastActiveAt # NoVal /\ (t - lastActiveAt) <= 0

(* The rate limit of updateSimulationState: max 1 per second *)
UpdateTooSoon(lastActiveAt, t) ==
    lastActiveAt # NoVal /\ (t - lastActiveAt) < UpdateFloorMs

(* updateSimulationState: PUT /:simulationId/state *)
updateSimulationState(id, patch) ==
    /\ UNCHANGED <<gameActions, stats, notifications, now, calc, inflight>>
    /\ IF ~patch.present
       THEN /\ resp' = Reply("update", id, 400, "validation")
            /\ UNCHANGED sims
       ELSE IF ~Found(id)
       THEN /\ resp' = Reply("update", id, 404, "not_found")
            /\ UNCHANGED sims
       ELSE IF UpdateTooSoon(sims[id].state.lastActiveAt, now)
       THEN /\ resp' = Reply("update", id, 429, "rate_limited")
            /\ UNCHANGED sims
       ELSE LET currentStatus == sims[id].state.status
                newStatus == patch.status
                merged == [MergeState(sims[id].state, patch,
                                      newStatus # "" /\ newStatus = currentStatus)
                               EXCEPT !.lastActiveAt = now]
            IN  IF /\ newStatus # ""
                   /\ newStatus # currentStatus
                   /\ ~isValidStateTransition(currentStatus, newStatus)
                THEN /\ resp' = Reply("update", id, 400, "invalid_transition")
                     /\ UNCHANGED sims
                ELSE IF ~StateValid(merged)
                THEN /\ resp' = Reply("update", id, 500, "error")
                     /\ UNCHANGED sims
                ELSE /\ sims' = [sims EXCEPT ![id].state = merged]
                     /\ resp' = Reply("update", id, 200, "ok")

----------------------------------------------------------------------------
(* Completion and achievement engine *)

(* calculatePerformance(score, maxScore): (score / maxScore) * 100 >= 90 ... *)
(* For integer scores the comparison percentage >= k is score * 100 >= k *   *)
(* maxScore: a ratio below a threshold is below it by at least 1/(100 *      *)
(* maxScore), far more than the rounding of the division.                    *)
(* Mutant: the excellent threshold is strict *)
calculatePerformanceStrict(score, maxScore) ==
    IF score * 100 > 90 * maxScore THEN "excellent"
    ELSE IF score * 100 >= 75 * maxScore THEN "good"
    ELSE IF score * 100 >= 60 * maxScore THEN "fair"
    ELSE "needs_improvement"

calculatePerformance(score, maxScore) ==
    IF score * 100 >= 90 * maxScore THEN "excellent"
    ELSE IF score * 100 >= 75 * maxScore THEN "good"
    ELSE IF score * 100 >= 60 * maxScore THEN "fair"
    ELSE "needs_improvement"

(* Mutant: the performance badges are not exclusive of the good tier *)
generateGameAchievementsBoth(results, performance) ==
    (IF performance = "excellent" THEN {"perfect_scientist", "skilled_researcher"}
     ELSE IF performance = "good" THEN {"skilled_researcher"} ELSE {})
    \cup (IF results.observationsMade >= ObserverMin THEN {"keen_observer"} ELSE {})
    \cup (IF results.actionsCompleted >= ExperimenterMin
          THEN {"active_experimenter"} ELSE {})
    \cup (IF results.gameScore > 0 THEN {"lab_apprentice"} ELSE {})

(* generateGameAchievements(results, performance): the ids of the badges *)
generateGameAchievements(results, performance) ==
    (IF performance = "excellent" THEN {"perfect_scientist"}
     ELSE IF performance = "good" THEN {"skilled_researcher"} ELSE {})
    \cup (IF results.observationsMade >= ObserverMin THEN {"keen_observer"} ELSE {})
    \cup (IF results.actionsCompleted >= ExperimenterMin
          THEN {"active_experimenter"} ELSE {})
    \cup (IF results.gameScore > 0 THEN {"lab_apprentice"} ELSE {})

(* Math.round(a / b) for b > 0: the nearest integer, a half rounds up *)
(* Mutant: the average is truncated *)
RoundDivFloor(a, b) == a \div b

RoundDiv(a, b) == ((2 * a) + b) \div (2 * b)

(* Mutant: the reduce keeps the accumulator on a tie *)
MaxSubjectKeepFirst(sp) ==
    LET pick(a, b) == IF sp[a] >= sp[b] THEN a ELSE b
    IN  pick(pick(TrackedSubjects[1], TrackedSubjects[2]), TrackedSubjects[3])

(* subjects.reduce((a, b) => skillProgression[a] > skillProgression[b] ? a : b) *)
MaxSubject(sp) ==
    LET pick(a, b) == IF sp[a] > sp[b] THEN a ELSE b
    IN  pick(pick(TrackedSubjects[1], TrackedSubjects[2]), TrackedSubjects[3])

(* const progressionGain = Math.min(5, Math.floor(finalScore / 20)) *)
progressionGain(finalScore) == Min(ProgressionCap, finalScore \div ProgressionDiv)

(* updateStats, "Update streaks" *)
(* Mutant: a score below 70 leaves the current streak alone *)
UpdateStreaksNoReset(streaks, finalScore) ==
    LET cur == IF finalScore >= StreakSuccess THEN streaks.current + 1
               ELSE streaks.current
    IN  [current |-> cur, longest |-> Max(streaks.longest, cur)]

UpdateStreaks(streaks, finalScore) ==
    LET cur == IF finalScore >= StreakSuccess THEN streaks.current + 1 ELSE 0
    IN  [current |-> cur,
         longest |-> IF finalScore >= StreakSuccess /\ cur > streaks.longest
                     THEN cur ELSE streaks.longest]

(* studentGameStatsSchema.methods.updateStats({ subject, finalScore, completed }) *)
(* up to, not including, this.save()                                           *)
updateStats(row, subject, finalScore, completed) ==
    LET games == row.totalGamesPlayed + 1
        total == row.totalScore + finalScore
        tracked == subject \in DOMAIN row.skillProgression
        sp == IF tracked
              THEN [row.skillProgression EXCEPT
                       ![subject] = Min(SkillMax, @ + progressionGain(finalScore))]
              ELSE row.skillProgression
        best == IF tracked /\ finalScore > row.bestScores[subject]
                THEN [row.bestScores EXCEPT ![subject] = finalScore]
                ELSE row.bestScores
    IN  [exists |-> TRUE,
         totalGamesPlayed |-> games,
         totalScore |-> total,
         averageScore |-> RoundDiv(total, games),
         experimentsCompleted |->
             IF completed THEN row.experimentsCompleted + 1 ELSE row.experimentsCompleted,
         favoriteSubject |-> IF tracked THEN MaxSubject(sp) ELSE row.favoriteSubject,
         skillProgression |-> sp,
         bestScores |-> best,
         streaks |-> UpdateStreaks(row.streaks, finalScore)]

(* Schema validation of a StudentGameStats row on save: skillProgression  *)
(* min: 0, max: 100                                                        *)
StatsRowValid(row) ==
    \A s \in DOMAIN row.skillProgression :
        row.skillProgression[s] >= 0 /\ row.skillProgression[s] <= SkillMax

(* updateStudentGameStats(studentId, gameData): find or create the row,    *)
(* updateStats and save; a rejected save is caught and logged, the stored  *)
(* row stays as it was                                                     *)
updateStudentGameStats(row, subject, finalScore) ==
    LET updated == updateStats(row, subject, finalScore, TRUE)
    IN  IF StatsRowValid(updated) THEN updated ELSE row

(* The finalResults a client sends to completeSimulation: absent, or an     *)
(* object that carries gameScore or not (NoVal).                            *)
FinalResultsInputs ==
    {[present |-> FALSE, gameScore |-> NoVal]}
    \cup {[present |-> TRUE, gameScore |-> g] : g \in FinalScores}

(* completeSimulation, if (finalResults) { simulation.state.results = ... } *)
MergeResults(state, finalResults) ==
    IF finalResults.present
    THEN [gameScore |-> OrElse(finalResults.gameScore,
                               OrElse(state.gameState.score, 0)),
          actionsCompleted |-> 0,
          observationsMade |-> OrElse(Len(state.gameState.observations), 0),
          hintsUsed |-> OrElse(Len(state.gameState.hints), 0)]
    ELSE state.results

(* const gameScore = simulation.state.results.gameScore || 0 *)
FinalScoreOf(results) == OrElse(results.gameScore, 0)

(* completeSimulation: POST /:simulationId/complete, with the users whose  *)
(* notifications cannot be saved                                           *)
completeSimulationNotifying(id, finalResults, lost) ==
    /\ UNCHANGED <<gameActions, now, calc, inflight>>
    /\ IF ~Found(id)
       THEN /\ resp' = Reply("complete", id, 404, "not_found")
            /\ UNCHANGED <<sims, stats, notifications>>
       ELSE IF ~CanComplete(sims[id].state.status)
       THEN /\ resp' = Reply("complete", id, 400, "invalid_transition")
            /\ UNCHANGED <<sims, stats, notifications>>
       ELSE LET sim == sims[id]
                results == MergeResults(sim.state, finalResults)
                gameScore == FinalScoreOf(results)
                maxScore == OrElse(sim.gameConfig.maxScore, DefaultMaxScore)
                performance == calculatePerformance(gameScore, maxScore)
                gameAchievements == generateGameAchievements(results, performance)
            IN  /\ sims' = [sims EXCEPT ![id].state.status = "completed",
                                        ![id].state.progress = 100,
                                        ![id].state.completedAt = now,
                                        ![id].state.lastActiveAt = now,
                                        ![id].state.results = results]
                /\ stats' = [stats EXCEPT ![sim.studentId] =
                                updateStudentGameStats(@, sim.subject, gameScore)]
                /\ notifications' =
                       createSimulationNotificationsLosing(sim.studentId, id,
                                                           "completed", TRUE, lost)
                /\ resp' = AfterNotifications(
                                "complete", id,
                                IntendedNotifications(sim.studentId, id,
                                                      "completed", TRUE),
                                lost,
                                [Reply("complete", id, 200, "ok") EXCEPT
                                     !.finalScore = gameScore,
                                     !.performance = performance,
                                     !.achievements = gameAchievements])

(* completeSimulation: POST /:simulationId/complete *)
completeSimulation(id, finalResults) ==
    completeSimulationNotifying(id, finalResults, {})


----------------------------------------------------------------------------
(* Game action processor *)

(* aiService.generateMockActionResult: every entry of the table, and the   *)
(* default entry, has isCorrect: true, observation: true, safety: 'safe'   *)
(* Mutant: the table entry lacks the observation flag *)
generateMockActionResultNoObservation(action) ==
    [isCorrect |-> TRUE, observation |-> FALSE, safety |-> "safe",
     achievements |-> <<>>]

generateMockActionResult(action) ==
    [isCorrect |-> TRUE, observation |-> TRUE, safety |-> "safe",
     achievements |-> <<>>]

(* aiService.processGameAction: builds the prompt, returns the mock result *)
aiProcessGameAction(action) == generateMockActionResult(action)

(* aiService.generateFallbackChemicalReaction *)
generateFallbackChemicalReaction ==
    [safety |-> "safe", educational |-> TRUE, visualEffect |-> "gentle_mixing",
     resultSolution |-> "Mixed Solution"]

(* aiService.processChemicalMixing: this.createChemicalMixingPrompt is not  *)
(* a method of the class, the call throws and the catch block answers       *)
aiProcessChemicalMixing == generateFallbackChemicalReaction

(* Mutant: the fallback hint is typed by its specificity *)
generateFallbackHintGeneral == [type |-> "general", specificity |-> "general"]

(* aiService.generateFallbackHint *)
generateFallbackHint == [type |-> "encouragement", specificity |-> "general"]

(* aiService.generateHint: this.createHintPrompt is not a method of the    *)
(* class, the call throws and the catch block answers                      *)
aiGenerateHint == generateFallbackHint

(* Mutant: the dangerous penalty is not floored at 0 *)
calculateScoreGainNoFloor(action, aiResult, criteria) ==
    LET base == criteria.correctAction
        withCorrect == IF aiResult.isCorrect THEN base + criteria.correctAction ELSE base
        withObs == IF aiResult.observation
                   THEN withCorrect + criteria.observation ELSE withCorrect
        penalised ==
            IF aiResult.safety = "dangerous" THEN withObs - DangerPenalty
            ELSE IF aiResult.safety = "caution" THEN Max(0, withObs - CautionPenalty)
            ELSE withObs
    IN  Min(penalised, ActionCap)

(* calculateScoreGain(action, aiResult, gameConfig) *)
calculateScoreGain(action, aiResult, criteria) ==
    LET base == criteria.correctAction
        withCorrect == IF aiResult.isCorrect THEN base + criteria.correctAction ELSE base
        withObs == IF aiResult.observation
                   THEN withCorrect + criteria.observation ELSE withCorrect
        penalised ==
            IF aiResult.safety = "dangerous" THEN Max(0, withObs - DangerPenalty)
            ELSE IF aiResult.safety = "caution" THEN Max(0, withObs - CautionPenalty)
            ELSE withObs
    IN  Min(penalised, ActionCap)

(* Mutant: every rating other than safe earns the caution bonus *)
calculateMixingScoreElseBonus(reaction, criteria) ==
    LET base == criteria.correctAction
        withSafety ==
            IF reaction.safety = "safe" THEN base + MixSafeBonus
            ELSE base + MixCautionBonus
        withEdu == IF reaction.educational
                   THEN withSafety + criteria.observation ELSE withSafety
    IN  Min(withEdu, MixCap)

(* calculateMixingScore(chemical1, chemical2, reaction, gameConfig) *)
calculateMixingScore(reaction, criteria) ==
    LET base == criteria.correctAction
        withSafety ==
            IF reaction.safety = "safe" THEN base + MixSafeBonus
            ELSE IF reaction.safety = "caution" THEN base + MixCautionBonus
            ELSE base
        withEdu == IF reaction.educational
                   THEN withSafety + criteria.observation ELSE withSafety
    IN  Min(withEdu, MixCap)

(* Mutant: score = scoreGain instead of score += scoreGain *)
AddScoreAssign(score, scoreGain) == scoreGain

(* simulation.state.gameState.score += scoreGain *)
AddScore(score, scoreGain) == score + scoreGain

(* gameActionSchema validation on save: the action and target enums *)
GameActionValid(row) ==
    /\ row.action \in GameActionKinds
    /\ row.target \in GameTargets

(* processGameAction: POST /:simulationId/ai/process-action *)
processGameAction(id, action, target) ==
    /\ UNCHANGED <<stats, notifications, now, calc, inflight>>
    /\ IF action = "" \/ target = ""
       THEN /\ resp' = Reply("action", id, 400, "validation")
            /\ UNCHANGED <<sims, gameActions>>
       ELSE IF ~Found(id)
       THEN /\ resp' = Reply("action", id, 404, "not_found")
            /\ UNCHANGED <<sims, gameActions>>
       ELSE LET sim == sims[id]
                aiResult == aiProcessGameAction(action)
                scoreGain == calculateScoreGain(action, aiResult, sim.gameConfig)
                row == [simulationId |-> id, studentId |-> sim.studentId,
                        action |-> action, target |-> target,
                        scoreGained |-> scoreGain]
                gs == sim.state.gameState
            IN  IF ~GameActionValid(row)
                THEN /\ resp' = Reply("action", id, 500, "error")
                     /\ UNCHANGED <<sims, gameActions>>
                ELSE /\ Len(gameActions) < MaxActions
                     /\ gameActions' = Append(gameActions, row)
                     /\ sims' = [sims EXCEPT
                            ![id].state.gameState.score = AddScore(gs.score, scoreGain),
                            ![id].state.lastActiveAt = now,
                            ![id].state.gameState.observations =
                                IF aiResult.observation
                                THEN Append(gs.observations, [action |-> action])
                                ELSE gs.observations,
                            ![id].state.gameState.achievements =
                                gs.achievements \o aiResult.achievements]
                     /\ resp' = [Reply("action", id, 200, "ok") EXCEPT
                                     !.scoreGain = scoreGain]

(* mixChemicals: POST /:simulationId/ai/mix-chemicals *)
mixChemicals(id, chemical1, chemical2) ==
    /\ UNCHANGED <<stats, notifications, now, calc, inflight>>
    /\ IF chemical1 = "" \/ chemical2 = ""
       THEN /\ resp' = Reply("mix", id, 400, "validation")
            /\ UNCHANGED <<sims, gameActions>>
       ELSE IF ~Found(id)
       THEN /\ resp' = Reply("mix", id, 404, "not_found")
            /\ UNCHANGED <<sims, gameActions>>
       ELSE LET sim == sims[id]
                reaction == aiProcessChemicalMixing
                scoreGain == calculateMixingScore(reaction, sim.gameConfig)
                row == [simulationId |-> id, studentId |-> sim.studentId,
                        action |-> "mix_chemicals", target |-> "mixing",
                        scoreGained |-> scoreGain]
                gs == sim.state.gameState
            IN  IF ~GameActionValid(row)
                THEN /\ resp' = Reply("mix", id, 500, "error")
                     /\ UNCHANGED <<sims, gameActions>>
                ELSE /\ Len(gameActions) < MaxActions
                     /\ gameActions' = Append(gameActions, row)
                     /\ sims' = [sims EXCEPT
                            ![id].state.gameState.mixedSolutions =
                                Append(gs.mixedSolutions,
                                       [components |-> <<chemical1, chemical2>>,
                                        result |-> reaction.resultSolution,
                                        visualEffect |-> reaction.visualEffect]),
                            ![id].state.gameState.score = AddScore(gs.score, scoreGain),
                            ![id].state.lastActiveAt = now]
                     /\ resp' = [Reply("mix", id, 200, "ok") EXCEPT
                                     !.scoreGain = scoreGain]

(* getHint: POST /:simulationId/ai/get-hint *)
getHint(id) ==
    /\ UNCHANGED <<gameActions, stats, notifications, now, calc, inflight>>
    /\ IF ~Found(id)
       THEN /\ resp' = Reply("hint", id, 404, "not_found")
            /\ UNCHANGED sims
       ELSE LET hint == aiGenerateHint
                gs == sims[id].state.gameState
            IN  /\ Len(gs.hints) < MaxHints
                /\ sims' = [sims EXCEPT
                       ![id].state.gameState.hints =
                           Append(gs.hints, [type |-> hint.type]),
                       ![id].state.lastActiveAt = now]
                /\ resp' = Reply("hint", id, 200, "ok")

----------------------------------------------------------------------------
(* Generation *)

(* Mutant: any user id that is given passes the check *)
IsStudentAnyUser(userId) == userId # ""

(* User.findById(studentId) with role 'student' *)
IsStudent(userId) == userId \in Students

(* Mutant: the count leaves out a simulation created exactly one hour ago *)
RecentSimulationsAfter(studentId, t) ==
    Cardinality({i \in 1..Len(sims) :
                    /\ sims[i].studentId = studentId
                    /\ sims[i].createdAt > t - GenWindowMs})

(* Simulation.countDocuments({ studentId, createdAt: { $gte: oneHourAgo } }) *)
RecentSimulations(studentId, t) ==
    Cardinality({i \in 1..Len(sims) :
                    /\ sims[i].studentId = studentId
                    /\ sims[i].createdAt >= t - GenWindowMs})

(* What the external capability does with one generation request: it is  *)
(* not configured, the call fails, the text is no JSON, or the text parses *)
(* to an object whose title is there or not and whose lists are absent,    *)
(* empty, lists of strings or lists of structured objects.                 *)
AiOutcome(kind, title, equipment, chemicals, procedure, safetyNotes) ==
    [kind |-> kind, title |-> title, equipment |-> equipment,
     chemicals |-> chemicals, procedure |-> procedure, safetyNotes |-> safetyNotes]

AiUnavailable == AiOutcome("unavailable", FALSE, "absent", "absent", "absent", "absent")

AiFailures ==
    {AiUnavailable,
     AiOutcome("error", FALSE, "absent", "absent", "absent", "absent"),
     AiOutcome("unparsable", FALSE, "absent", "absent", "absent", "absent")}

AiParsed ==
    {AiOutcome("parsed", TRUE, "strings", "strings", "strings", "strings"),
     AiOutcome("parsed", FALSE, "absent", "absent", "absent", "absent"),
     AiOutcome("parsed", TRUE, "objects", "empty", "strings", "empty"),
     AiOutcome("parsed", TRUE, "empty", "objects", "absent", "strings")}

AiOutcomes == AiFailures \cup AiParsed

(* The list the capability returned, two items long when it has items *)
Returned(shape) == List(IF shape \in {"absent", "empty"} THEN 0 ELSE 2, shape)

(* aiService.enhanceEquipmentForGaming(equipmentList, subject) *)
enhanceEquipmentForGaming(shape, subject) ==
    IF Returned(shape).n = 0 THEN List(3, "objects")
    ELSE List(Returned(shape).n, "objects")

(* aiService.enhanceChemicalsForGaming(chemicalsList, subject) *)
enhanceChemicalsForGaming(shape, subject) ==
    IF Returned(shape).n = 0
    THEN (IF subject = "chemistry" THEN List(3, "objects") ELSE List(0, "objects"))
    ELSE List(Returned(shape).n, "objects")

(* aiService.parseAIResponse(aiResponse, originalPrompt, subject, level) *)
parseAIResponse(ai, subject, level) ==
    [title |-> IF ai.title THEN "generated title" ELSE subject \o " Experiment",
     virtualLab |->
         [equipment |-> enhanceEquipmentForGaming(ai.equipment, subject),
          chemicals |-> enhanceChemicalsForGaming(ai.chemicals, subject),
          procedure |-> IF Returned(ai.procedure).n > 0
                        THEN List(Returned(ai.procedure).n, "strings")
                        ELSE List(3, "strings"),
          safetyNotes |-> IF Returned(ai.safetyNotes).n > 0
                          THEN List(Returned(ai.safetyNotes).n, "strings")
                          ELSE List(3, "strings")],
     subject |-> subject, level |-> level,
     gameConfig |-> generateGameConfig(subject, level)]

(* Mutant: a failed generation is passed on as an empty description *)
aiGenerateSimulationFailClosed(ai, subject, level) ==
    IF ai.kind = "parsed" THEN parseAIResponse(ai, subject, level)
    ELSE [title |-> "", level |-> level, subject |-> subject,
          virtualLab |-> [equipment |-> List(0, "objects"),
                          chemicals |-> List(0, "objects"),
                          procedure |-> List(0, "strings"),
                          safetyNotes |-> List(0, "strings")],
          gameConfig |-> generateGameConfig(subject, level)]

(* aiService.generateSimulation({ prompt, subject, level }): the mock when *)
(* no key is configured, the parsed response, the mock on any error        *)
aiGenerateSimulation(ai, subject, level) ==
    IF ai.kind = "parsed" THEN parseAIResponse(ai, subject, level)
    ELSE generateMockSimulation(subject, level)

(* Mutant: the controller takes every subject's chemicals for optional *)
EnsureVirtualLabNoChemicals(lab, subject) ==
    [equipment |-> IF lab.equipment.n = 0 THEN List(5, "strings") ELSE lab.equipment,
     procedure |-> IF lab.procedure.n = 0 THEN List(5, "strings") ELSE lab.procedure,
     safetyNotes |->
         IF lab.safetyNotes.n = 0 THEN List(4, "strings") ELSE lab.safetyNotes,
     chemicals |-> List(0, "objects")]

(* generateSimulation, "Validate simulation data completeness": the        *)
(* defaults the controller puts in for missing lists are plain strings     *)
EnsureVirtualLab(lab, subject) ==
    [equipment |-> IF lab.equipment.n = 0 THEN List(5, "strings") ELSE lab.equipment,
     procedure |-> IF lab.procedure.n = 0 THEN List(5, "strings") ELSE lab.procedure,
     safetyNotes |->
         IF lab.safetyNotes.n = 0 THEN List(4, "strings") ELSE lab.safetyNotes,
     chemicals |-> IF subject = "chemistry" /\ lab.chemicals.n = 0
                   THEN List(3, "strings") ELSE lab.chemicals]

(* simulationSchema validation on save: required title, subject enum,      *)
(* level 1..5, equipment items are { id, name } objects and the list is    *)
(* not empty, chemicals items are objects, procedure and safetyNotes are   *)
(* not empty                                                               *)
SimulationValid(doc) ==
    /\ doc.title # ""
    /\ doc.subject \in {"chemistry", "physics", "biology", "general"}
    /\ doc.level >= 1 /\ doc.level <= 5
    /\ doc.virtualLab.equipment.n > 0 /\ doc.virtualLab.equipment.items = "objects"
    /\ doc.virtualLab.chemicals.n > 0 => doc.virtualLab.chemicals.items = "objects"
    /\ doc.virtualLab.procedure.n > 0
    /\ doc.virtualLab.safetyNotes.n > 0

(* generateSimulation: POST /generate.  cap is the number of simulations   *)
(* the collection holds at most.                                           *)
generateSimulationNotifying(studentId, promptLen, subject, level, ai, cap, lost) ==
    /\ UNCHANGED <<gameActions, stats, now, calc, inflight>>
    /\ IF studentId = "" \/ promptLen = 0
       THEN /\ resp' = Reply("generate", 0, 400, "validation")
            /\ UNCHANGED <<sims, notifications>>
       ELSE IF promptLen > PromptMax
       THEN /\ resp' = Reply("generate", 0, 400, "validation")
            /\ UNCHANGED <<sims, notifications>>
       ELSE IF ~IsStudent(studentId)
       THEN /\ resp' = Reply("generate", 0, 404, "not_found")
            /\ UNCHANGED <<sims, notifications>>
       ELSE IF RecentSimulations(studentId, now) >= GenLimit
       THEN /\ resp' = Reply("generate", 0, 429, "rate_limited")
            /\ UNCHANGED <<sims, notifications>>
       ELSE LET simulationLevel == IF level = 0 THEN DefaultLevel ELSE level
                simulationSubject == IF subject = "" THEN "general" ELSE subject
                aiData == aiGenerateSimulation(ai, simulationSubject, simulationLevel)
                checked == [aiData EXCEPT
                               !.virtualLab = EnsureVirtualLab(@, simulationSubject)]
                doc == NewSimulation(studentId, promptLen, checked,
                                     simulationSubject, simulationLevel, now)
            IN  IF ~SimulationValid(doc)
                THEN /\ resp' = Reply("generate", 0, 500, "error")
                     /\ UNCHANGED <<sims, notifications>>
                ELSE /\ Len(sims) < cap
                     /\ sims' = Append(sims, doc)
                     /\ notifications' =
                            createSimulationNotificationsLosing(
                                studentId, Len(sims) + 1, "generated", FALSE, lost)
                     /\ resp' = AfterNotifications(
                                     "generate", 0,
                                     IntendedNotifications(studentId, Len(sims) + 1,
                                                           "generated", FALSE),
                                     lost,
                                     Reply("generate", Len(sims) + 1, 201, "ok"))

(* generateSimulation: POST /generate *)
generateSimulation(studentId, promptLen, subject, level, ai, cap) ==
    generateSimulationNotifying(studentId, promptLen, subject, level, ai, cap, {})

----------------------------------------------------------------------------
(* The clock and the specification *)

TickSteps == {1000}

Tick ==
    /\ \E d \in TickSteps : now + d <= MaxTime /\ now' = now + d
    /\ UNCHANGED <<sims, gameActions, stats, notifications, resp, calc, inflight>>

Next ==
    \/ \E g \in GenInputs, sub \in GenSubjects, l \in GenLevels :
          generateSimulation(g[1], g[2], sub, l, AiUnavailable, MaxSims)
    \/ \E id \in SimIds : startSimulation(id)
    \/ \E id \in SimIds : pauseSimulation(id)
    \/ \E id \in SimIds : resumeSimulation(id)
    \/ \E id \in SimIds, fr \in FinalResultsInputs : completeSimulation(id, fr)
    \/ \E id \in SimIds, patch \in Patches : updateSimulationState(id, patch)
    \/ \E id \in SimIds, a \in ActionInputs : processGameAction(id, a[1], a[2])
    \/ \E id \in SimIds, c1 \in ChemicalInputs, c2 \in ChemicalInputs :
          mixChemicals(id, c1, c2)
    \/ \E id \in SimIds : getHint(id)
    \/ Tick

Spec == Init /\ [][Next]_vars


----------------------------------------------------------------------------
(* The scoring helpers on their own: the weights, the flags and the safety *)
(* rating are drawn, then one helper is applied.                           *)

SafetyRatings == {"safe", "caution", "dangerous", "unknown"}

ScoreInit ==
    /\ sims = <<>>
    /\ gameActions = <<>>
    /\ stats = [s \in Students |-> NewStats]
    /\ notifications = {}
    /\ now = 0
    /\ inflight = <<>>
    /\ resp = Reply("none", 0, 0, "none")
    /\ calc \in [fn : {"none"}, correctAction : 1..MaxWeight, observation : 1..MaxWeight,
                 flagA : BOOLEAN, flagB : BOOLEAN, safety : SafetyRatings,
                 out : {NoVal}]

(* calculateScoreGain(action, { isCorrect: flagA, observation: flagB, safety }, *)
(*                    { scoringCriteria: { correctAction, observation } })      *)
ApplyScoreGain ==
    /\ calc.fn = "none"
    /\ calc' = [calc EXCEPT
                   !.fn = "calculateScoreGain",
                   !.out = calculateScoreGain("use_equipment",
                               [isCorrect |-> calc.flagA, observation |-> calc.flagB,
                                safety |-> calc.safety],
                               [correctAction |-> calc.correctAction,
                                observation |-> calc.observation])]
    /\ UNCHANGED <<sims, gameActions, stats, notifications, now, resp, inflight>>

(* calculateMixingScore(c1, c2, { safety, educational: flagA }, gameConfig) *)
ApplyMixingScore ==
    /\ calc.fn = "none"
    /\ calc' = [calc EXCEPT
                   !.fn = "calculateMixingScore",
                   !.out = calculateMixingScore(
                               [safety |-> calc.safety, educational |-> calc.flagA],
                               [correctAction |-> calc.correctAction,
                                observation |-> calc.observation])]
    /\ UNCHANGED <<sims, gameActions, stats, notifications, now, resp, inflight>>

ScoreNext == ApplyScoreGain \/ ApplyMixingScore

ScoreSpec == ScoreInit /\ [][ScoreNext]_vars


----------------------------------------------------------------------------
(* The completion helpers on their own: a game score, a maxScore, the      *)
(* counters of the results bag and a tier are drawn, then one helper is    *)
(* applied.                                                                *)

Tiers == {"excellent", "good", "fair", "needs_improvement"}
TierScores == {-5} \cup (0..MaxFinalScore)
TierMaxScores == {1, 100, 120, 160, 200}
ObservationCounts == {NoVal, 4, 5}
ActionCounts == {NoVal, 9, 10}

TierInit ==
    /\ sims = <<>>
    /\ gameActions = <<>>
    /\ stats = [s \in Students |-> NewStats]
    /\ notifications = {}
    /\ now = 0
    /\ inflight = <<>>
    /\ resp = Reply("none", 0, 0, "none")
    /\ calc \in [fn : {"none"}, score : TierScores, maxScore : TierMaxScores,
                 observationsMade : ObservationCounts,
                 actionsCompleted : ActionCounts,
                 tier : Tiers, performance : {""}, badges : {{}}]

(* const performance = calculatePerformance(gameScore, maxScore) *)
ApplyPerformance ==
    /\ calc.fn = "none"
    /\ calc' = [calc EXCEPT
                   !.fn = "calculatePerformance",
                   !.performance = calculatePerformance(calc.score, calc.maxScore)]
    /\ UNCHANGED <<sims, gameActions, stats, notifications, now, resp, inflight>>

(* const gameAchievements = generateGameAchievements(results, performance) *)
ApplyAchievements ==
    /\ calc.fn = "none"
    /\ calc' = [calc EXCEPT
                   !.fn = "generateGameAchievements",
                   !.badges = generateGameAchievements(
                                  [gameScore |-> calc.score,
                                   observationsMade |-> calc.observationsMade,
                                   actionsCompleted |-> calc.actionsCompleted],
                                  calc.tier)]
    /\ UNCHANGED <<sims, gameActions, stats, notifications, now, resp, inflight>>

TierNext == ApplyPerformance \/ ApplyAchievements

TierSpec == TierInit /\ [][TierNext]_vars


----------------------------------------------------------------------------
(* Completions of one student: the student has MaxCompletions started      *)
(* simulations (generated and started at time 0) and a StudentGameStats    *)
(* row that is either absent or the result of PriorGames earlier chemistry *)
(* completions with final score 100 (the simulations of those completions  *)
(* are left out of sims); the simulations are then completed in any order. *)

StatsSubjects == {"chemistry", "physics", "general"}
StatsScores == {-60, 40, 90, 130}
StatsFinalResults == {[present |-> TRUE, gameScore |-> g] : g \in StatsScores}

RECURSIVE Replay(_, _)
Replay(row, n) ==
    IF n = 0 THEN row
    ELSE Replay(updateStudentGameStats(row, "chemistry", 100), n - 1)

SeasonedStats == Replay(NewStats, PriorGames)

(* A simulation as generateSimulation and startSimulation leave it *)
StartedSimulation(studentId, subject, level, t) ==
    [NewSimulation(studentId, 20, generateMockSimulation(subject, level),
                   subject, level, t) EXCEPT
        !.state.status = "in_progress",
        !.state.startedAt = t,
        !.state.lastActiveAt = t]

StatsInit ==
    /\ \E subjects \in [1..MaxCompletions -> StatsSubjects] :
           sims = [i \in 1..MaxCompletions |->
                      StartedSimulation("s1", subjects[i], 1, 0)]
    /\ gameActions = <<>>
    /\ stats \in [Students -> {NewStats, SeasonedStats}]
    /\ notifications =
           {[userId |-> "s1", type |-> "simulation_" \o a, sim |-> i] :
                a \in {"generated", "started"}, i \in 1..MaxCompletions}
           \cup {[userId |-> q, type |-> "simulation_started", sim |-> i] :
                     q \in Parents("s1"), i \in 1..MaxCompletions}
    /\ now = 0
    /\ inflight = <<>>
    /\ resp = Reply("start", MaxCompletions, 200, "ok")
    /\ calc = NoCalc

StatsNext ==
    \E id \in 1..MaxCompletions, fr \in StatsFinalResults : completeSimulation(id, fr)

StatsSpec == StatsInit /\ [][StatsNext]_vars


----------------------------------------------------------------------------
(* Overlapping requests.  A handler is a chain of awaits: it reads the     *)
(* document (findById / findOne), works on its own copy and writes the     *)
(* copy back (save).  Two requests are in flight and their steps           *)
(* interleave.  The student has two started simulations; the steps happen  *)
(* one second after the simulations were started.                          *)

RaceSims == 1..2

Request(op, id, patch, finalResults) ==
    [op |-> op, sim |-> id, patch |-> patch, finalResults |-> finalResults,
     pc |-> "read", doc |-> <<>>, row |-> <<>>, score |-> NoVal, kind |-> ""]

RaceRequests ==
    {Request("complete", 1, Patch(FALSE, "", NoVal, NoVal),
             [present |-> TRUE, gameScore |-> 90]),
     Request("complete", 2, Patch(FALSE, "", NoVal, NoVal),
             [present |-> TRUE, gameScore |-> 40]),
     Request("update", 1, Patch(TRUE, "paused", NoVal, NoVal),
             [present |-> FALSE, gameScore |-> NoVal]),
     Request("update", 1, Patch(TRUE, "", 50, NoVal),
             [present |-> FALSE, gameScore |-> NoVal]),
     Request("action", 1, Patch(FALSE, "", NoVal, NoVal),
             [present |-> FALSE, gameScore |-> NoVal])}

RaceInit ==
    /\ sims = <<StartedSimulation("s1", "chemistry", 1, 0),
                StartedSimulation("s1", "physics", 1, 0)>>
    /\ gameActions = <<>>
    /\ stats \in [Students -> {NewStats, SeasonedStats}]
    /\ notifications =
           {[userId |-> "s1", type |-> "simulation_" \o a, sim |-> i] :
                a \in {"generated", "started"}, i \in RaceSims}
           \cup {[userId |-> q, type |-> "simulation_started", sim |-> i] :
                     q \in Parents("s1"), i \in RaceSims}
    /\ now = UpdateFloorMs
    /\ resp = Reply("start", 2, 200, "ok")
    /\ calc = NoCalc
    /\ inflight \in {<<a, b>> : a \in RaceRequests, b \in RaceRequests}

(* The request r is at step pc of handler op *)
At(r, op, pc) == inflight[r].op = op /\ inflight[r].pc = pc

Finish(r, kind) == [inflight EXCEPT ![r].pc = "done", ![r].kind = kind]

(* save() of a loaded document sends the paths whose value differs from   *)
(* the value read                                                          *)
Pick(current, read, updated) == IF updated # read THEN updated ELSE current

(* completeSimulation: findById and the status check *)
completeRead(r) ==
    LET q == inflight[r] IN
    /\ At(r, "complete", "read")
    /\ UNCHANGED <<sims, gameActions, stats, notifications, now, calc>>
    /\ IF ~CanComplete(sims[q.sim].state.status)
       THEN /\ inflight' = Finish(r, "invalid_transition")
            /\ resp' = Reply("complete", q.sim, 400, "invalid_transition")
       ELSE /\ inflight' = [inflight EXCEPT ![r].pc = "save",
                                            ![r].doc = <<sims[q.sim]>>]
            /\ UNCHANGED resp

(* completeSimulation: the assignments to state and simulation.save() *)
completeSave(r) ==
    LET q == inflight[r]
        local == q.doc[1]
        results == MergeResults(local.state, q.finalResults)
    IN  /\ At(r, "complete", "save")
        /\ sims' = [sims EXCEPT
               ![q.sim].state.status = "completed",
               ![q.sim].state.progress = Pick(@, local.state.progress, 100),
               ![q.sim].state.completedAt = now,
               ![q.sim].state.lastActiveAt = now,
               ![q.sim].state.results = IF q.finalResults.present THEN results ELSE @]
        /\ inflight' = [inflight EXCEPT ![r].pc = "readStats",
                                        ![r].score = FinalScoreOf(results)]
        /\ UNCHANGED <<gameActions, stats, notifications, now, resp, calc>>

(* updateStudentGameStats: StudentGameStats.findOne({ studentId }) *)
statsRead(r) ==
    LET q == inflight[r] IN
    /\ At(r, "complete", "readStats")
    /\ inflight' = [inflight EXCEPT ![r].pc = "saveStats",
                                    ![r].row = <<stats[sims[q.sim].studentId]>>]
    /\ UNCHANGED <<sims, gameActions, stats, notifications, now, resp, calc>>

(* What stats.save() leaves in the collection: a new row is inserted      *)
(* unless the unique index on studentId rejects it, a loaded row has its   *)
(* modified paths written                                                  *)
StoreStats(current, read, updated) ==
    IF ~StatsRowValid(updated) THEN current
    ELSE IF ~read.exists THEN (IF current.exists THEN current ELSE updated)
    ELSE [exists |-> TRUE,
          totalGamesPlayed |->
              Pick(current.totalGamesPlayed, read.totalGamesPlayed,
                   updated.totalGamesPlayed),
          totalScore |-> Pick(current.totalScore, read.totalScore, updated.totalScore),
          averageScore |->
              Pick(current.averageScore, read.averageScore, updated.averageScore),
          experimentsCompleted |->
              Pick(current.experimentsCompleted, read.experimentsCompleted,
                   updated.experimentsCompleted),
          favoriteSubject |->
              Pick(current.favoriteSubject, read.favoriteSubject,
                   updated.favoriteSubject),
          skillProgression |->
              [t \in DOMAIN current.skillProgression |->
                  Pick(current.skillProgression[t], read.skillProgression[t],
                       updated.skillProgression[t])],
          bestScores |->
              [t \in DOMAIN current.bestScores |->
                  Pick(current.bestScores[t], read.bestScores[t],
                       updated.bestScores[t])],
          streaks |->
              [current |-> Pick(current.streaks.current, read.streaks.current,
                                updated.streaks.current),
               longest |-> Pick(current.streaks.longest, read.streaks.longest,
                                updated.streaks.longest)]]

(* updateStudentGameStats: stats.updateStats(gameData) with its save, then *)
(* the notifications and the response of completeSimulation                *)
statsSave(r) ==
    LET q == inflight[r]
        student == sims[q.sim].studentId
        read == q.row[1]
        updated == updateStats(read, sims[q.sim].subject, q.score, TRUE)
        maxScore == OrElse(sims[q.sim].gameConfig.maxScore, DefaultMaxScore)
        performance == calculatePerformance(q.score, maxScore)
    IN  /\ At(r, "complete", "saveStats")
        /\ stats' = [stats EXCEPT ![student] = StoreStats(@, read, updated)]
        /\ notifications' =
               createSimulationNotifications(student, q.sim, "completed", TRUE)
        /\ resp' = [Reply("complete", q.sim, 200, "ok") EXCEPT
                        !.finalScore = q.score,
                        !.performance = performance,
                        !.achievements =
                            generateGameAchievements(
                                sims[q.sim].state.results, performance)]
        /\ inflight' = Finish(r, "ok")
        /\ UNCHANGED <<sims, gameActions, now, calc>>

(* updateSimulationState: findById, the rate limit and the transition check *)
updateRead(r) ==
    LET q == inflight[r]
        currentStatus == sims[q.sim].state.status
    IN  /\ At(r, "update", "read")
        /\ UNCHANGED <<sims, gameActions, stats, notifications, now, calc>>
        /\ IF UpdateTooSoon(sims[q.sim].state.lastActiveAt, now)
           THEN /\ inflight' = Finish(r, "rate_limited")
                /\ resp' = Reply("update", q.sim, 429, "rate_limited")
           ELSE IF /\ q.patch.status # ""
                   /\ q.patch.status # currentStatus
                   /\ ~isValidStateTransition(currentStatus, q.patch.status)
           THEN /\ inflight' = Finish(r, "invalid_transition")
                /\ resp' = Reply("update", q.sim, 400, "invalid_transition")
           ELSE /\ inflight' = [inflight EXCEPT ![r].pc = "save",
                                                ![r].doc = <<sims[q.sim]>>]
                /\ UNCHANGED resp

(* updateSimulationState: simulation.state = { ...state, ...patch } and    *)
(* simulation.save(): the whole state object of the copy is written        *)
updateSave(r) ==
    LET q == inflight[r]
        local == q.doc[1]
        merged == [MergeState(local.state, q.patch,
                              q.patch.status # ""
                                  /\ q.patch.status = local.state.status)
                       EXCEPT !.lastActiveAt = now]
    IN  /\ At(r, "update", "save")
        /\ UNCHANGED <<gameActions, stats, notifications, now, calc>>
        /\ IF ~StateValid(merged)
           THEN /\ inflight' = Finish(r, "error")
                /\ resp' = Reply("update", q.sim, 500, "error")
                /\ UNCHANGED sims
           ELSE /\ sims' = [sims EXCEPT ![q.sim].state = merged]
                /\ inflight' = Finish(r, "ok")
                /\ resp' = Reply("update", q.sim, 200, "ok")

(* processGameAction: findById *)
actionRead(r) ==
    LET q == inflight[r] IN
    /\ At(r, "action", "read")
    /\ inflight' = [inflight EXCEPT ![r].pc = "log", ![r].doc = <<sims[q.sim]>>]
    /\ UNCHANGED <<sims, gameActions, stats, notifications, now, resp, calc>>

(* processGameAction: the interpretation, the score and gameAction.save() *)
actionLog(r) ==
    LET q == inflight[r]
        local == q.doc[1]
        aiResult == aiProcessGameAction("use_equipment")
        scoreGain == calculateScoreGain("use_equipment", aiResult, local.gameConfig)
    IN  /\ At(r, "action", "log")
        /\ gameActions' =
               Append(gameActions,
                      [simulationId |-> q.sim, studentId |-> local.studentId,
                       action |-> "use_equipment", target |-> "beaker",
                       scoreGained |-> scoreGain])
        /\ inflight' = [inflight EXCEPT ![r].pc = "save", ![r].score = scoreGain]
        /\ UNCHANGED <<sims, stats, notifications, now, resp, calc>>

(* processGameAction: score += scoreGain on the copy, the observation push *)
(* and simulation.save(): the score of the copy is written, the            *)
(* observation is pushed onto the stored array                             *)
actionSave(r) ==
    LET q == inflight[r]
        local == q.doc[1]
    IN  /\ At(r, "action", "save")
        /\ sims' = [sims EXCEPT
               ![q.sim].state.gameState.score =
                   AddScore(local.state.gameState.score, q.score),
               ![q.sim].state.lastActiveAt = now,
               ![q.sim].state.gameState.observations =
                   Append(@, [action |-> "use_equipment"])]
        /\ inflight' = Finish(r, "ok")
        /\ resp' = [Reply("action", q.sim, 200, "ok") EXCEPT !.scoreGain = q.score]
        /\ UNCHANGED <<gameActions, stats, notifications, now, calc>>

RaceNext ==
    \E r \in 1..2 :
        \/ completeRead(r)
        \/ completeSave(r)
        \/ statsRead(r)
        \/ statsSave(r)
        \/ updateRead(r)
        \/ updateSave(r)
        \/ actionRead(r)
        \/ actionLog(r)
        \/ actionSave(r)

RaceSpec == RaceInit /\ [][RaceNext]_vars


----------------------------------------------------------------------------
(* Generation with a configured capability: every subject and level a      *)
(* client can name, every outcome of the capability, and the lifecycle     *)
(* operations on the simulation that was created.                          *)

ContentSubjects == {"", "chemistry", "physics", "biology", "general", "art"}
ContentLevels == 0..6


(* The requests: a well-formed one for every subject, level and outcome,   *)
(* and the malformed ones with one choice of the rest                      *)
GenRequests ==
    {<<g, sub, l, ai>> : g \in {<<"s1", 20>>}, sub \in ContentSubjects,
                         l \in ContentLevels, ai \in AiOutcomes}
    \cup {<<g, "chemistry", 1, AiUnavailable>> : g \in GenInputs}

GenNext ==
    \/ \E r \in GenRequests :
          /\ Len(sims) < MaxSims
          /\ generateSimulation(r[1][1], r[1][2], r[2], r[3], r[4], MaxSims)
    \/ \E id \in SimIds : startSimulation(id)
    \/ \E id \in SimIds : pauseSimulation(id)
    \/ \E id \in SimIds : resumeSimulation(id)
    \/ \E id \in SimIds, fr \in FinalResultsInputs : completeSimulation(id, fr)
    \/ \E id \in SimIds : getHint(id)

GenSpec == Init /\ [][GenNext]_vars


----------------------------------------------------------------------------
(* The generation quota: one student sends well-formed generate requests,  *)
(* one at a time, while the clock advances by single milliseconds and by   *)
(* whole hours, so that requests arrive just before, exactly at and just   *)
(* after the end of the hour of an earlier simulation.                     *)

QuotaSteps == {1, GenWindowMs}

QuotaTick ==
    /\ \E d \in QuotaSteps :
          /\ d = 1 => (now % GenWindowMs) < MaxQuotaOffset
          /\ d = GenWindowMs => (now \div GenWindowMs) < MaxQuotaWindows
          /\ now' = now + d
    /\ UNCHANGED <<sims, gameActions, stats, notifications, resp, calc, inflight>>

QuotaNext ==
    \/ generateSimulation("s1", 20, "chemistry", 1, AiUnavailable, MaxQuotaSims)
    \/ QuotaTick

QuotaSpec == Init /\ [][QuotaNext]_vars


----------------------------------------------------------------------------
(* The pace of state updates: one simulation is generated, driven through  *)
(* its lifecycle and patched while the clock advances by one millisecond   *)
(* and by one millisecond less than a second, so that patches arrive 999,  *)
(* 1000 and 1001 ms after the last activity.                               *)

PaceSteps == {1, UpdateFloorMs - 1}

PaceTick ==
    /\ \E d \in PaceSteps :
          /\ d = 1 => \/ (now % UpdateFloorMs) = UpdateFloorMs - 1
                      \/ (now % UpdateFloorMs) < MaxPaceOffset
          /\ now + d <= MaxPaceTime
          /\ now' = now + d
    /\ UNCHANGED <<sims, gameActions, stats, notifications, resp, calc, inflight>>

PaceNext ==
    \/ generateSimulation("s1", 20, "chemistry", 1, AiUnavailable, MaxSims)
    \/ \E id \in SimIds : startSimulation(id)
    \/ \E id \in SimIds : pauseSimulation(id)
    \/ \E id \in SimIds : resumeSimulation(id)
    \/ \E id \in SimIds, patch \in Patches : updateSimulationState(id, patch)
    \/ PaceTick

PaceSpec == Init /\ [][PaceNext]_vars


----------------------------------------------------------------------------
(* Notifications that cannot be saved: every generate, start and complete  *)
(* request is served with any set of users whose notifications fail (the   *)
(* student, the guardians, both or none).                                  *)

NotifiedUsers == Students \cup UNION {Parents(st) : st \in Students}

NotifyNext ==
    \/ \E lost \in SUBSET NotifiedUsers :
          generateSimulationNotifying("s1", 20, "chemistry", 1, AiUnavailable,
                                      MaxSims, lost)
    \/ \E id \in SimIds, lost \in SUBSET NotifiedUsers :
          startSimulationNotifying(id, lost)
    \/ \E id \in SimIds : pauseSimulation(id)
    \/ \E id \in SimIds : resumeSimulation(id)
    \/ \E id \in SimIds, fr \in FinalResultsInputs, lost \in SUBSET NotifiedUsers :
          completeSimulationNotifying(id, fr, lost)

NotifySpec == Init /\ [][NotifyNext]_vars


----------------------------------------------------------------------------
(* Properties *)

(* A step that serves a request: every handler leaves the clock alone and  *)
(* writes its response; Tick changes only the clock.                       *)
Served(op, id) == now' = now /\ vars' # vars /\ resp'.op = op /\ resp'.sim = id

LifecycleOps == {"start", "pause", "resume", "complete"}

(* The statuses each dedicated operation is permitted from, and where it   *)
(* leads, as the lifecycle section states them.                            *)
PermittedFrom(op) ==
    CASE op = "start" -> {"not_started"}
      [] op = "pause" -> {"in_progress"}
      [] op = "resume" -> {"paused"}
      [] op = "complete" -> {"in_progress", "paused"}

LeadsTo(op) ==
    CASE op = "start" -> "in_progress"
      [] op = "pause" -> "paused"
      [] op = "resume" -> "in_progress"
      [] op = "complete" -> "completed"

TransitionTable ==
    {<<"not_started", "in_progress">>, <<"in_progress", "paused">>,
     <<"in_progress", "completed">>, <<"paused", "in_progress">>,
     <<"paused", "completed">>}

(* C1: a dedicated start, pause, resume or complete request on an existing *)
(* simulation succeeds exactly when the current status is one the          *)
(* operation is permitted from (and then sets the operation's target       *)
(* status); every other request is answered 400 invalid-transition and     *)
(* leaves the simulation record unchanged.                                 *)
C1_DedicatedTransitions ==
    [][\A id \in SimIds, op \in LifecycleOps :
          Found(id) /\ Served(op, id) =>
              LET st == sims[id].state.status
              IN  /\ resp'.kind = "ok" <=> st \in PermittedFrom(op)
                  /\ resp'.kind = "ok" => sims'[id].state.status = LeadsTo(op)
                  /\ resp'.kind # "ok" =>
                         /\ resp'.kind = "invalid_transition"
                         /\ resp'.code = 400
                         /\ sims' = sims]_vars

(* C1 witness: pause on an already paused simulation was rejected *)
C1_PauseOnPausedRejected ==
    /\ resp.op = "pause" /\ resp.kind = "invalid_transition"
    /\ Found(resp.sim) /\ sims[resp.sim].state.status = "paused"

(* C2: once a simulation is completed it stays completed in every later    *)
(* state, and every start, pause, resume or complete on it is answered     *)
(* invalid-transition.                                                     *)
C2_CompletionTerminal ==
    [][\A id \in SimIds :
          Found(id) /\ sims[id].state.status = "completed" =>
              /\ sims'[id].state.status = "completed"
              /\ \A op \in LifecycleOps :
                     Served(op, id) => resp'.kind = "invalid_transition"]_vars

(* C2 witness: a second complete on a completed simulation was rejected *)
C2_CompleteAfterCompleteRejected ==
    /\ resp.op = "complete" /\ resp.kind = "invalid_transition"
    /\ Found(resp.sim) /\ sims[resp.sim].state.status = "completed"
    /\ sims[resp.sim].state.completedAt # NoVal

(* C3 as claimed: no request changes the record of a completed simulation  *)
(* (state, gameState and lastActiveAt stay as completion left them).       *)
C3_CompletedRecordFrozen ==
    [][\A id \in SimIds :
          Found(id) /\ sims[id].state.status = "completed" =>
              sims'[id].state = sims[id].state]_vars

(* C4: an update-state patch that reaches the transition check (state      *)
(* present, simulation found, not rate-limited) and whose status differs   *)
(* from the current status is accepted only for a pair of the transition   *)
(* table; for any other pair it is answered 400 invalid-transition and the *)
(* record is unchanged.  A patch whose status equals the current status    *)
(* keeps the status and has its other fields applied.                      *)
C4_GenericUpdateTransitions ==
    [][\A id \in SimIds, patch \in Patches :
          /\ updateSimulationState(id, patch)
          /\ Found(id) /\ patch.present /\ patch.status # ""
          =>
          LET cur == sims[id].state.status
              inTable == <<cur, patch.status>> \in TransitionTable
              tooSoon == /\ sims[id].state.lastActiveAt # NoVal
                         /\ now - sims[id].state.lastActiveAt < 1000
          IN  /\ patch.status # cur /\ resp'.kind = "ok" => inTable
              /\ patch.status # cur /\ resp'.kind = "ok" =>
                     sims'[id].state.status = patch.status
              /\ patch.status # cur /\ ~inTable =>
                     /\ resp'.kind # "ok"
                     /\ sims' = sims
                     /\ ~tooSoon => resp'.kind = "invalid_transition"
                                    /\ resp'.code = 400
              /\ patch.status = cur /\ resp'.kind = "ok" =>
                     /\ sims'[id].state.status = cur
                     /\ patch.progress # NoVal =>
                            sims'[id].state.progress = patch.progress
                     /\ patch.gameScore # NoVal =>
                            sims'[id].state.gameState.score = patch.gameScore
              /\ patch.status = cur /\ ~tooSoon /\ patch.progress \in {NoVal, 50} =>
                     resp'.kind = "ok"]_vars

(* C4 witness: a patch naming a pair outside the table was rejected and a  *)
(* started simulation is still in_progress                                 *)
C4_PatchOutsideTableRejected ==
    /\ resp.op = "update" /\ resp.kind = "invalid_transition"
    /\ Found(resp.sim) /\ sims[resp.sim].state.status = "in_progress"


(* C5 as claimed: when complete succeeds and the caller supplies no        *)
(* gameScore (finalResults absent, or present without gameScore), the      *)
(* final score reported, stored in the results bag and added to the        *)
(* student's statistics is the accumulated gameState.score, and the tier   *)
(* and the badges are those of that score.                                 *)
C5_FinalScoreBackfilled ==
    [][\A id \in SimIds, fr \in FinalResultsInputs :
          /\ completeSimulation(id, fr)
          /\ resp'.kind = "ok" /\ fr.gameScore = NoVal
          =>
          LET sim == sims[id]
              score == sim.state.gameState.score
              tier == calculatePerformance(score, sim.gameConfig.maxScore)
          IN  /\ resp'.finalScore = score
              /\ OrElse(sims'[id].state.results.gameScore, 0) = score
              /\ resp'.performance = tier
              /\ "skilled_researcher" \in resp'.achievements <=> tier = "good"
              /\ "perfect_scientist" \in resp'.achievements <=> tier = "excellent"
              /\ stats'[sim.studentId].totalScore =
                     stats[sim.studentId].totalScore + score]_vars

(* C6: a successfully processed game action appends exactly one GameAction *)
(* row that carries the score delta as scoreGained and raises the          *)
(* simulation's gameState.score by exactly that delta; a use_equipment     *)
(* action gains exactly 25 and appends one gameState observation.          *)
C6_ActionLoggedAndScored ==
    [][\A id \in SimIds :
          Found(id) /\ Served("action", id) /\ resp'.kind = "ok" =>
              LET gs == sims[id].state.gameState
                  gs2 == sims'[id].state.gameState
                  row == gameActions'[Len(gameActions')]
              IN  /\ gameActions' = Append(gameActions, row)
                  /\ row.simulationId = id
                  /\ row.scoreGained = resp'.scoreGain
                  /\ gs2.score = gs.score + row.scoreGained
                  /\ row.action = "use_equipment" =>
                         /\ row.scoreGained = 25
                         /\ Len(gs2.observations) = Len(gs.observations) + 1
                         /\ gs2.observations[Len(gs2.observations)].action
                                = "use_equipment"]_vars

(* C6 witness: after start, one use_equipment action was processed: one    *)
(* row, score 25, one observation                                          *)
C6_OneActionAfterStart ==
    /\ resp.op = "action" /\ resp.kind = "ok" /\ resp.scoreGain = 25
    /\ Found(resp.sim) /\ sims[resp.sim].state.status = "in_progress"
    /\ Len(gameActions) = 1 /\ gameActions[1].action = "use_equipment"
    /\ sims[resp.sim].state.gameState.score = 25
    /\ Len(sims[resp.sim].state.gameState.observations) = 1

(* The safety penalty of the scoring section: 15 floored at 0 for          *)
(* dangerous, 5 floored at 0 for caution, nothing for safe.                *)
Penalised(safety, x) ==
    CASE safety = "dangerous" -> IF x - 15 < 0 THEN 0 ELSE x - 15
      [] safety = "caution" -> IF x - 5 < 0 THEN 0 ELSE x - 5
      [] safety = "safe" -> x

(* C7: for every correctness flag, observation flag, safety rating in      *)
(* safe/caution/dangerous and positive weights, calculateScoreGain is      *)
(* min(25, p(correctAction + (correct ? correctAction : 0) +               *)
(* (observation ? observation : 0))) and lies in 0..25; with weights       *)
(* (10, 5) correct, observing and safe gives 25, and dangerous gives 10.   *)
C7_ScoreGainFormula ==
    calc.fn = "calculateScoreGain" /\ calc.safety \in {"safe", "caution", "dangerous"} =>
        LET c == calc.correctAction
            o == calc.observation
            sum == c + (IF calc.flagA THEN c ELSE 0) + (IF calc.flagB THEN o ELSE 0)
            p == Penalised(calc.safety, sum)
        IN  /\ calc.out = (IF p < 25 THEN p ELSE 25)
            /\ calc.out \in 0..25
            /\ c = 10 /\ o = 5 /\ calc.flagA /\ calc.flagB /\ calc.safety = "safe"
                   => calc.out = 25
            /\ c = 10 /\ o = 5 /\ calc.flagA /\ calc.flagB /\ calc.safety = "dangerous"
                   => calc.out = 10

(* C7 witness: the dangerous penalty was floored at 0 (weights 2 and 1,    *)
(* incorrect, no observation), and the default dangerous case gave 10      *)
C7_DangerousFloored ==
    /\ calc.fn = "calculateScoreGain" /\ calc.safety = "dangerous"
    /\ calc.correctAction = 2 /\ ~calc.flagA /\ ~calc.flagB /\ calc.out = 0

(* C8: for every safety rating and educational flag, calculateMixingScore  *)
(* is min(30, correctAction + (10 if safe, 5 if caution, 0 otherwise) +    *)
(* (observation if educational)); with weights (10, 5) safe and            *)
(* educational gives 25, neither safe nor caution and not educational      *)
(* gives 10; never more than 30.                                           *)
C8_MixingScoreFormula ==
    calc.fn = "calculateMixingScore" =>
        LET c == calc.correctAction
            o == calc.observation
            bonus == CASE calc.safety = "safe" -> 10
                       [] calc.safety = "caution" -> 5
                       [] OTHER -> 0
            sum == c + bonus + (IF calc.flagA THEN o ELSE 0)
        IN  /\ calc.out = (IF sum < 30 THEN sum ELSE 30)
            /\ calc.out <= 30
            /\ c = 10 /\ o = 5 /\ calc.flagA /\ calc.safety = "safe" => calc.out = 25
            /\ c = 10 /\ ~calc.flagA /\ calc.safety \notin {"safe", "caution"}
                   => calc.out = 10

(* C8 witness: an uncategorised, non-educational mix scored the base       *)
(* weight 10                                                               *)
C8_UncategorisedMixBase ==
    /\ calc.fn = "calculateMixingScore" /\ calc.safety = "unknown"
    /\ calc.correctAction = 10 /\ ~calc.flagA /\ calc.out = 10

(* C9 as claimed: a mix-chemicals request naming two chemicals on an       *)
(* existing simulation succeeds, appends one mix_chemicals GameAction row, *)
(* appends one mixedSolutions entry, raises the score by the mixing score  *)
(* and refreshes lastActiveAt.                                             *)
C9_MixProcessed ==
    [][\A id \in SimIds, c1 \in ChemicalInputs, c2 \in ChemicalInputs :
          /\ mixChemicals(id, c1, c2)
          /\ Found(id) /\ c1 # "" /\ c2 # ""
          =>
          LET gs == sims[id].state.gameState
              gs2 == sims'[id].state.gameState
          IN  /\ resp'.kind = "ok"
              /\ Len(gameActions') = Len(gameActions) + 1
              /\ gameActions'[Len(gameActions')].action = "mix_chemicals"
              /\ Len(gs2.mixedSolutions) = Len(gs.mixedSolutions) + 1
              /\ gs2.score = gs.score + resp'.scoreGain
              /\ sims'[id].state.lastActiveAt = now]_vars

C11_PerformanceLadder ==
    calc.fn = "calculatePerformance" =>
        LET s == calc.score * 100
            m == calc.maxScore
        IN  /\ calc.performance = "excellent" <=> s >= 90 * m
            /\ calc.performance = "good" <=> s >= 75 * m /\ s < 90 * m
            /\ calc.performance = "fair" <=> s >= 60 * m /\ s < 75 * m
            /\ calc.performance = "needs_improvement" <=> s < 60 * m

(* C11 witness: 108 of 120 is exactly 90% and is rated excellent *)
C11_ExactlyNinetyPercent ==
    /\ calc.fn = "calculatePerformance" /\ calc.score = 108 /\ calc.maxScore = 120
    /\ calc.performance = "excellent"

(* C12: the badges are evaluated rule by rule and awarded together:        *)
(* perfect_scientist iff the tier is excellent, skilled_researcher iff it  *)
(* is good, keen_observer iff observationsMade >= 5, active_experimenter   *)
(* iff actionsCompleted >= 10, lab_apprentice iff gameScore > 0; no other  *)
(* badge is awarded.                                                       *)
C12_BadgeRules ==
    calc.fn = "generateGameAchievements" =>
        /\ "perfect_scientist" \in calc.badges <=> calc.tier = "excellent"
        /\ "skilled_researcher" \in calc.badges <=> calc.tier = "good"
        /\ "keen_observer" \in calc.badges <=> calc.observationsMade >= 5
        /\ "active_experimenter" \in calc.badges <=> calc.actionsCompleted >= 10
        /\ "lab_apprentice" \in calc.badges <=> calc.score > 0
        /\ calc.badges \subseteq
               {"perfect_scientist", "skilled_researcher", "keen_observer",
                "active_experimenter", "lab_apprentice"}

(* C12 witness: four badges awarded together *)
C12_FourBadgesTogether ==
    /\ calc.fn = "generateGameAchievements"
    /\ calc.badges = {"perfect_scientist", "keen_observer", "active_experimenter",
                      "lab_apprentice"}

(* A successful complete request of simulation id with final score fs *)
Completed(id, fs) ==
    /\ Found(id) /\ Served("complete", id)
    /\ resp'.kind = "ok" /\ resp'.finalScore = fs

StatsFinalScores == {40, 90, 130}

C15_SkillProgression ==
    [][\A id \in 1..MaxCompletions, fs \in StatsScores :
          Completed(id, fs) =>
              LET old == stats[sims[id].studentId].skillProgression
                  new == stats'[sims[id].studentId].skillProgression
                  sub == sims[id].subject
                  gain == IF fs \div 20 < 5 THEN fs \div 20 ELSE 5
                  sum(t) == old[t] + gain
                  clamped(t) == IF sum(t) < 0 THEN 0
                                ELSE IF sum(t) > 100 THEN 100 ELSE sum(t)
              IN  \A t \in {"chemistry", "physics", "biology"} :
                      /\ new[t] >= 0 /\ new[t] <= 100
                      /\ new[t] = IF t = sub THEN clamped(t) ELSE old[t]]_vars

(* C16 as claimed: when two different simulations of one student are       *)
(* completed by overlapping requests and both report success, the          *)
(* student's row reflects both: totalGamesPlayed and experimentsCompleted  *)
(* are 2 higher and totalScore is higher by both final scores, also when   *)
(* the row did not exist before.                                           *)
C16_BothCompletionsCounted ==
    LET a == inflight[1]
        b == inflight[2]
        row == stats["s1"]
        base == IF row.totalGamesPlayed >= PriorGames THEN SeasonedStats ELSE NewStats
    IN  /\ Len(inflight) = 2
        /\ a.op = "complete" /\ b.op = "complete" /\ a.sim # b.sim
        /\ a.pc = "done" /\ b.pc = "done" /\ a.kind = "ok" /\ b.kind = "ok"
        => /\ row.totalGamesPlayed = base.totalGamesPlayed + 2
           /\ row.experimentsCompleted = base.experimentsCompleted + 2
           /\ row.totalScore = base.totalScore + a.score + b.score

(* C17 as claimed: with overlapping requests on one simulation every       *)
(* accepted write survives: a simulation persisted as completed is never   *)
(* written back to another status, and the write of an update-state patch  *)
(* that carries no gameState leaves the score and the observations that    *)
(* process-action has written.                                             *)
C17_AcceptedWritesSurvive ==
    [][\A id \in RaceSims :
          /\ sims[id].state.status = "completed"
                 => sims'[id].state.status = "completed"
          /\ \A r \in 1..2 :
                 /\ updateSave(r)
                 /\ inflight[r].sim = id /\ inflight[r].patch.gameScore = NoVal
                 => /\ sims'[id].state.gameState.score
                           = sims[id].state.gameState.score
                    /\ sims'[id].state.gameState.observations
                           = sims[id].state.gameState.observations]_vars

(* C18: every persisted simulation, for every subject, every level and     *)
(* every outcome of the capability, has a non-empty equipment list, a      *)
(* non-empty procedure and non-empty safety notes, and a non-empty         *)
(* chemicals list when its subject is chemistry, in every reachable state. *)
C18_VirtualLabNeverEmpty ==
    \A i \in 1..Len(sims) :
        /\ sims[i].virtualLab.equipment.n > 0
        /\ sims[i].virtualLab.procedure.n > 0
        /\ sims[i].virtualLab.safetyNotes.n > 0
        /\ sims[i].subject = "chemistry" => sims[i].virtualLab.chemicals.n > 0

(* C18 witness: a chemistry simulation built from a response that had no   *)
(* lists at all was persisted and later completed                          *)
C18_PartialChemistryCompleted ==
    \E i \in 1..Len(sims) :
        /\ sims[i].subject = "chemistry" /\ sims[i].title = "chemistry Experiment"
        /\ sims[i].virtualLab.chemicals.n = 3
        /\ sims[i].state.status = "completed"

(* The title of the template the fallback takes for a subject *)
TemplateTitle(subject) ==
    CASE subject = "physics" -> "Simple Circuit Construction"
      [] subject = "biology" -> "Microscopic Cell Observation"
      [] OTHER -> "Acid-Base Titration Experiment"

(* C19: whenever the capability is unavailable, fails or returns text that *)
(* cannot be parsed, a generate request of a student (prompt of 1..500     *)
(* characters, subject of the schema or none, level 1..5 or none) succeeds *)
(* and creates a not_started simulation with the title of the subject's    *)
(* template (the chemistry template for general), tagged with the          *)
(* requested prompt, subject and level, with maxScore = 100 + 20 * level   *)
(* and non-empty chemicals for chemistry.                                  *)
C19_GenerationFailsOpen ==
    [][\A g \in {h \in GenInputs : h[1] = "s1" /\ h[2] >= 1 /\ h[2] <= 500},
         sub \in ContentSubjects \ {"art"}, l \in 0..5, ai \in AiFailures :
          /\ resp'.op = "generate"
          /\ generateSimulation(g[1], g[2], sub, l, ai, MaxSims)
          =>
          LET new == sims'[Len(sims')]
              subject == IF sub = "" THEN "general" ELSE sub
              level == IF l = 0 THEN 3 ELSE l
          IN  /\ resp'.kind = "ok" /\ resp'.code = 201
              /\ sims' = Append(sims, new)
              /\ new.state.status = "not_started"
              /\ new.title = TemplateTitle(subject)
              /\ new.promptLen = g[2] /\ new.subject = subject /\ new.level = level
              /\ new.gameConfig.maxScore = 100 + (20 * level)
              /\ new.virtualLab.equipment.n > 0 /\ new.virtualLab.procedure.n > 0
              /\ subject = "chemistry" => new.virtualLab.chemicals.n > 0]_vars

(* C19 witness: chemistry, level 3, capability failing: the titration      *)
(* template with maxScore 160                                              *)
C19_TitrationLevelThree ==
    /\ resp.op = "generate" /\ resp.kind = "ok" /\ Len(sims) = 1
    /\ sims[1].subject = "chemistry" /\ sims[1].level = 3
    /\ sims[1].title = "Acid-Base Titration Experiment"
    /\ sims[1].virtualLab.chemicals.n = 3
    /\ sims[1].gameConfig.maxScore = 160
    /\ sims[1].state.status = "not_started"

C22_NotificationFailureSwallowed ==
    [][\A lost \in SUBSET NotifiedUsers :
          /\ generateSimulationNotifying("s1", 20, "chemistry", 1, AiUnavailable,
                                         MaxSims, lost)
             => /\ resp'.kind = "ok" /\ resp'.code = 201
                /\ Len(sims') = Len(sims) + 1
                /\ sims'[Len(sims')].state.status = "not_started"
          /\ \A id \in SimIds :
                /\ startSimulationNotifying(id, lost)
                /\ Found(id) /\ sims[id].state.status = "not_started"
                => /\ resp'.kind = "ok" /\ resp'.code = 200
                   /\ sims'[id].state.status = "in_progress"
          /\ \A id \in SimIds, fr \in FinalResultsInputs :
                /\ completeSimulationNotifying(id, fr, lost)
                /\ Found(id) /\ sims[id].state.status \in {"in_progress", "paused"}
                => LET st == sims[id].studentId
                   IN  /\ resp'.kind = "ok" /\ resp'.code = 200
                       /\ sims'[id].state.status = "completed"
                       /\ stats'[st].totalGamesPlayed = stats[st].totalGamesPlayed + 1
                       /\ stats'[st].experimentsCompleted =
                              stats[st].experimentsCompleted + 1]_vars

(* C22 witness: a simulation was generated, started and completed while    *)
(* no notification at all could be saved                                   *)
C22_CompletedWithoutNotifications ==
    /\ resp.op = "complete" /\ resp.kind = "ok" /\ Found(resp.sim)
    /\ sims[resp.sim].state.status = "completed"
    /\ stats[sims[resp.sim].studentId].totalGamesPlayed = 1
    /\ notifications = {}

(* C23: malformed requests are rejected before any side effect: a generate *)
(* request without studentId or prompt, with a prompt of more than 500     *)
(* characters, or for a user that is no student, a process-action request  *)
(* without action or target and a mix-chemicals request without one of the *)
(* chemicals are answered with an error (400, or 404 for the user) and     *)
(* leave the Simulation, GameAction, StudentGameStats and notification     *)
(* records as they were.                                                   *)
C23_MalformedRejectedFirst ==
    [][/\ \A g \in GenInputs, sub \in GenSubjects, l \in GenLevels :
             /\ generateSimulation(g[1], g[2], sub, l, AiUnavailable, MaxSims)
             /\ g[1] = "" \/ g[2] = 0 \/ g[2] > 500 \/ g[1] \notin Students
             => /\ resp'.kind # "ok"
                /\ resp'.code = (IF g[1] = "" \/ g[2] = 0 \/ g[2] > 500
                                 THEN 400 ELSE 404)
                /\ UNCHANGED <<sims, gameActions, stats, notifications>>
       /\ \A id \in SimIds, a \in ActionInputs :
             processGameAction(id, a[1], a[2]) /\ (a[1] = "" \/ a[2] = "")
             => /\ resp'.kind # "ok" /\ resp'.code = 400
                /\ UNCHANGED <<sims, gameActions, stats, notifications>>
       /\ \A id \in SimIds, c1 \in ChemicalInputs, c2 \in ChemicalInputs :
             mixChemicals(id, c1, c2) /\ (c1 = "" \/ c2 = "")
             => /\ resp'.kind # "ok" /\ resp'.code = 400
                /\ UNCHANGED <<sims, gameActions, stats, notifications>>]_vars

(* C23 witness: a process-action request without a target was answered 400 *)
(* on a started simulation whose score and action log are still empty      *)
C23_ActionWithoutTargetRejected ==
    /\ resp.op = "action" /\ resp.kind = "validation" /\ resp.code = 400
    /\ Found(resp.sim) /\ sims[resp.sim].state.status = "in_progress"
    /\ sims[resp.sim].state.gameState.score = 0
    /\ gameActions = <<>>

(* The tracked subjects whose skill progression is maximal, as positions   *)
(* in the order chemistry, physics, biology                                *)
Maximal(sp) ==
    {i \in 1..3 : \A j \in 1..3 :
        sp[<<"chemistry", "physics", "biology">>[i]]
            >= sp[<<"chemistry", "physics", "biology">>[j]]}

C25_HintFrame ==
    [][\A id \in SimIds :
          Found(id) /\ Served("hint", id) =>
              LET gs == sims[id].state.gameState
                  gs2 == sims'[id].state.gameState
              IN  /\ resp'.kind = "ok"
                  /\ Len(gs2.hints) = Len(gs.hints) + 1
                  /\ \A k \in 1..Len(gs.hints) : gs2.hints[k] = gs.hints[k]
                  /\ gs2.hints[Len(gs2.hints)].type
                         \in {"tip", "encouragement", "direction", "safety"}
                  /\ gs2.score = gs.score
                  /\ sims'[id].state.status = sims[id].state.status
                  /\ gs2.observations = gs.observations
                  /\ gs2.mixedSolutions = gs.mixedSolutions
                  /\ gs2.achievements = gs.achievements
                  /\ gameActions' = gameActions]_vars

(* C25 witness: a hint was given after a scored action: one hint, the      *)
(* score still 25, one observation, one GameAction row                     *)
C25_HintAfterScoredAction ==
    /\ resp.op = "hint" /\ resp.kind = "ok" /\ Found(resp.sim)
    /\ Len(sims[resp.sim].state.gameState.hints) = 1
    /\ sims[resp.sim].state.gameState.hints[1].type = "encouragement"
    /\ sims[resp.sim].state.gameState.score = 25
    /\ Len(sims[resp.sim].state.gameState.observations) = 1
    /\ Len(gameActions) = 1

(* C26 as claimed: in every reachable state a completed simulation has     *)
(* progress = 100 and completedAt set, and a simulation that is            *)
(* in_progress, paused or completed has startedAt set.                     *)
C26_TimestampsFollowStatus ==
    \A id \in SimIds :
        Found(id) =>
            /\ sims[id].state.status = "completed" =>
                   /\ sims[id].state.progress = 100
                   /\ sims[id].state.completedAt # NoVal
            /\ sims[id].state.status \in {"in_progress", "paused", "completed"} =>
                   sims[id].state.startedAt # NoVal

(* C27 as claimed: in every reachable state a not_started simulation has   *)
(* gameState.score = 0, empty observation, mixed-solution, hint and        *)
(* achievement logs and no GameAction row referencing it.                  *)
C27_NotStartedHasNoGameData ==
    \A id \in SimIds :
        Found(id) /\ sims[id].state.status = "not_started" =>
            /\ sims[id].state.gameState.score = 0
            /\ sims[id].state.gameState.observations = <<>>
            /\ sims[id].state.gameState.mixedSolutions = <<>>
            /\ sims[id].state.gameState.hints = <<>>
            /\ sims[id].state.gameState.achievements = <<>>
            /\ \A k \in 1..Len(gameActions) : gameActions[k].simulationId # id

(* C28 as claimed: when two complete requests for the same started         *)
(* simulation overlap (both read the record before either writes), at most *)
(* one of them reports success and the student's totalGamesPlayed,         *)
(* experimentsCompleted and totalScore count that simulation once.         *)
C28_CompletedOnce ==
    LET a == inflight[1]
        b == inflight[2]
        row == stats["s1"]
        base == IF row.totalGamesPlayed >= PriorGames THEN SeasonedStats ELSE NewStats
    IN  /\ Len(inflight) = 2
        /\ a.op = "complete" /\ b.op = "complete" /\ a.sim = b.sim
        /\ a.pc = "done" /\ b.pc = "done"
        => /\ ~(a.kind = "ok" /\ b.kind = "ok")
           /\ row.totalGamesPlayed <= base.totalGamesPlayed + 1
           /\ row.experimentsCompleted <= base.experimentsCompleted + 1
           /\ row.totalScore <= base.totalScore + Max(a.score, b.score)

(* C29 as claimed: with requests handled one at a time, in every reachable *)
(* state the student's experimentsCompleted and totalGamesPlayed equal the *)
(* number of the student's simulations whose status is completed (0 while  *)
(* the student has no row).                                                *)
C29_StatsCountCompleted ==
    \A st \in Students :
        LET done == Cardinality({i \in 1..Len(sims) :
                                    /\ sims[i].studentId = st
                                    /\ sims[i].state.status = "completed"})
        IN  /\ stats[st].experimentsCompleted = done
            /\ stats[st].totalGamesPlayed = done

(* The sum of scoreGained over the first n GameAction rows that reference  *)
(* simulation id                                                           *)
RECURSIVE LoggedScore(_, _)
LoggedScore(id, n) ==
    IF n = 0 THEN 0
    ELSE LoggedScore(id, n - 1)
             + (IF gameActions[n].simulationId = id
                THEN gameActions[n].scoreGained ELSE 0)

(* C30 as claimed: in every reachable state gameState.score of a           *)
(* simulation equals the sum of scoreGained over the GameAction rows that  *)
(* reference it.                                                           *)
C30_ScoreMatchesLog ==
    \A id \in SimIds :
        Found(id) =>
            sims[id].state.gameState.score = LoggedScore(id, Len(gameActions))

====
